---- MODULE Spec2Model ----
(***************************************************************************)
(* Model of the audio capture and analysis engine of clerkk-recorder       *)
(* (the useMicrophone hook, src/src/app/components/Waveform.tsx:449-606).  *)
(*                                                                         *)
(* The hook's React state and refs are the variables.  The host is the     *)
(* browser: a queue of pending getUserMedia promises, the pending          *)
(* requestAnimationFrame callbacks, the pending setTimeout callbacks and   *)
(* a millisecond clock.  Each callback of the hook is one action.          *)
(*                                                                         *)
(* analyzeAudio is a useCallback closure over the isSpeaking of the render *)
(* that created it, and it re-schedules itself (line 525), so a polling    *)
(* loop keeps the isSpeaking value of the render in which startListening   *)
(* was called.  That captured value is the field "cap" of a request.       *)
(***************************************************************************)
EXTENDS Integers, Sequences, FiniteSets, TLC

\* ---- program constants (Waveform.tsx:466-469, 573) ----
SILENCE_THRESHOLD_NUM == 5
SILENCE_THRESHOLD_DEN == 1000
SILENCE_DELAY == 800
VOLUME_HISTORY_SIZE == 10
MIN_SPEAKING_DURATION == 200
FftSize == 1024
FrequencyBinCount == FftSize \div 2
ByteMax == 255

\* ---- bounds of the model ----
MaxCalls == 2
MaxTime == 1200
MaxTicks == 3
MaxHistTicks == 12
MaxHistCalls == 1
MaxSeconds == 2
MaxRenderCalls == 3
MaxRenderTicks == 2
\* granularity of the clock
TimeStep == MIN_SPEAKING_DURATION

\* A sample is the sum of the bytes of one frequency snapshot; the level the
\* code computes from it is sample / (FrequencyBinCount * ByteMax).
QuietSample == 0
LoudSample == 2 * FrequencyBinCount
Samples == {QuietSample, LoudSample}

NoTime == -1
DeniedMessage == "Microphone access denied. Please allow microphone permissions."

VARIABLES
  isListening, isSpeaking, hasPermission, audioLevel, error,
  mediaStreamRef, audioContextRef, analyserRef, animationFrameRef,
  silenceTimeoutRef, volumeHistoryRef, lastSpeakingTimeRef,
  mounted,
  pendingPermission, nextCall, liveStreams, openContexts,
  rafQueue, timerQueue, now,
  ev, stoppedSince, pushed, episodeStart, quietSince, lastAbove,
  containerWidth, propWidth, propHeight, canvasSize, cev,
  isRecording, isPaused, recordingTime, interval, awaiting, sev, stopHeld,
  prevTime,
  variant, canvas, analyserProp, animationRef, drawQueue, painted,
  rev, drawn, renderSkipped

hookState == <<isListening, isSpeaking, hasPermission, audioLevel, error>>
hookRefs == <<mediaStreamRef, audioContextRef, analyserRef, animationFrameRef,
              silenceTimeoutRef, volumeHistoryRef, lastSpeakingTimeRef>>
hostState == <<pendingPermission, nextCall, liveStreams, openContexts,
               rafQueue, timerQueue, now, mounted>>
ghosts == <<ev, stoppedSince, pushed, episodeStart, quietSince, lastAbove>>
hookVars == <<hookState, hookRefs, hostState, ghosts>>
canvasVars == <<containerWidth, propWidth, propHeight, canvasSize, cev>>
\* RecorderApp: its state, whether its 1-second interval is installed, the
\* handleRecordingToggle calls suspended at their await, and three ghosts
\* (prevTime: recordingTime before the latest step of the shell)
shellVars == <<isRecording, isPaused, recordingTime, interval, awaiting, sev,
               stopHeld, prevTime>>
\* Waveform: which of the two versions of the component is mounted, whether
\* its canvas exists, the analyser prop of the latest render, whether
\* animationRef holds a request id, the host's pending redraw requests, what
\* the canvas shows, and three ghosts
renderVars == <<variant, canvas, analyserProp, animationRef, drawQueue,
                painted, rev, drawn, renderSkipped>>
vars == <<hookVars, canvasVars, shellVars, renderVars>>

\* ---- pure helpers ----
RECURSIVE SumSeq(_)
SumSeq(s) == IF s = <<>> THEN 0 ELSE Head(s) + SumSeq(Tail(s))

\* PushHistory with the oldest sample kept and the newest dropped on overflow
PushHistoryDropsNewest(h, s) ==
  IF Len(h) >= VOLUME_HISTORY_SIZE THEN h ELSE Append(h, s)

\* lines 482-485: push, then shift when over capacity
PushHistory(h, s) ==
  LET h1 == Append(h, s)
  IN IF Len(h1) > VOLUME_HISTORY_SIZE THEN Tail(h1) ELSE h1

\* lines 488-492: mean of the history compared with SILENCE_THRESHOLD, in
\* exact integer arithmetic: sum/(len*bins*255) > 5/1000
AboveThreshold(h) ==
  SumSeq(h) * SILENCE_THRESHOLD_DEN
    > SILENCE_THRESHOLD_NUM * Len(h) * FrequencyBinCount * ByteMax

\* smallest timer handle not in use (handles are opaque; a handle that is
\* referenced nowhere is indistinguishable from a fresh one)
NewTimerId ==
  LET used == {t.id : t \in timerQueue} \cup {silenceTimeoutRef}
  IN CHOOSE i \in 1..(Cardinality(used) + 1) :
       i \notin used /\ \A j \in 1..(i - 1) : j \in used

\* ClearSilenceTimeout that forgets the clearTimeout call
ClearSilenceTimeoutForgotten(queue, ref) == queue

\* lines 496-499: clearTimeout of the pending silence timer on a loud tick
ClearSilenceTimeout(queue, ref) == {t \in queue : t.id # ref}

\* StopSilenceTimeout that forgets the clearTimeout call
StopSilenceTimeoutForgotten(queue, ref) == queue

\* lines 532-535: clearTimeout of the pending silence timer in stopListening
StopSilenceTimeout(queue, ref) ==
  IF ref # 0 THEN {t \in queue : t.id # ref} ELSE queue

\* StartsSilenceTimer that does not look at the pending timer
StartsSilenceTimerAlways(cap, ref) == cap

\* line 509: if (isSpeaking && !silenceTimeoutRef.current), with the
\* isSpeaking of the closure that runs
StartsSilenceTimer(cap, ref) == cap /\ ref = 0

\* ExposedLevel that publishes the integer mean of the history
ExposedLevelSmoothed(sample, hist) == SumSeq(hist) \div Len(hist)

\* lines 477-479: setAudioLevel(normalizedLevel), the level of this tick's
\* snapshot, set before the history is touched
ExposedLevel(sample, hist) == sample

\* ---- canvas sizing of the Waveform component (lines 39-62, 262-283) ----
\* Widths are in hundredths of a pixel, so that 95% of an integer container
\* width is an integer; the height is the exact fraction num/den of a pixel.
MinCanvasWidth == 320
MaxCanvasWidth == 800
MaxCanvasHeight == 200
WidthPercent == 95

Min2(a, b) == IF a < b THEN a ELSE b
Max2(a, b) == IF a > b THEN a ELSE b

\* UpdateCanvasSize with Math.max and Math.min exchanged
UpdateCanvasSizeSwapped(c, w, h) ==
  LET calculatedWidth == WidthPercent * c
      minWidth == Min2(calculatedWidth, 100 * MinCanvasWidth)
      finalWidth == Max2(minWidth, 100 * MaxCanvasWidth)
  IN IF finalWidth * h < MaxCanvasHeight * 100 * w
       THEN [width |-> finalWidth, num |-> finalWidth * h, den |-> 100 * w]
       ELSE [width |-> finalWidth, num |-> MaxCanvasHeight, den |-> 1]

\* updateCanvasSize for container width c and the configured w x h
UpdateCanvasSize(c, w, h) ==
  LET calculatedWidth == WidthPercent * c
      minWidth == Max2(calculatedWidth, 100 * MinCanvasWidth)
      finalWidth == Min2(minWidth, 100 * MaxCanvasWidth)
  IN \* Math.min(finalWidth * (h / w), 200)
     IF finalWidth * h < MaxCanvasHeight * 100 * w
       THEN [width |-> finalWidth, num |-> finalWidth * h, den |-> 100 * w]
       ELSE [width |-> finalWidth, num |-> MaxCanvasHeight, den |-> 1]

\* the configurations: the recorder's 800x160, the component's default
\* 800x200, and a tall 400x300 one
Configs == {<<800, 160>>, <<800, 200>>, <<400, 300>>}
\* container widths: the ones the tests name and the ranges around the two
\* clamping points 320/0.95 and 800/0.95
ContainerWidths == {0, 100, 1000, 5000} \cup (300..360) \cup (830..860)

\* the recorder page: an 800x160 Waveform in a 1000 px container
InitCanvas ==
  /\ containerWidth = 1000
  /\ propWidth = 800
  /\ propHeight = 160
  /\ canvasSize = UpdateCanvasSize(1000, 800, 160)
  /\ cev = "mount"

InitHook ==
  /\ isListening = FALSE
  /\ isSpeaking = FALSE
  /\ hasPermission = "null"
  /\ audioLevel = 0
  /\ error = "null"
  /\ mediaStreamRef = 0
  /\ audioContextRef = 0
  /\ analyserRef = 0
  /\ animationFrameRef = 0
  /\ silenceTimeoutRef = 0
  /\ volumeHistoryRef = <<>>
  /\ lastSpeakingTimeRef = 0
  /\ mounted = TRUE
  /\ pendingPermission = {}
  /\ nextCall = 1
  /\ liveStreams = {}
  /\ openContexts = {}
  /\ rafQueue = {}
  /\ timerQueue = {}
  /\ now = 0
  /\ ev = "init"
  /\ stoppedSince = FALSE
  /\ pushed = <<>>
  /\ episodeStart = NoTime
  /\ quietSince = NoTime
  /\ lastAbove = NoTime

\* RecorderApp.tsx lines 10-12
InitShell ==
  /\ isRecording = FALSE
  /\ isPaused = FALSE
  /\ recordingTime = 0
  /\ interval = FALSE
  /\ awaiting = {}
  /\ sev = "init"
  /\ stopHeld = FALSE
  /\ prevTime = 0

\* Waveform.tsx lines 155-202 / 369-409 on mount: isListening is false, so
\* the effect paints the idle frame
InitRender(v) ==
  /\ variant = v
  /\ canvas = TRUE
  /\ analyserProp = 0
  /\ animationRef = FALSE
  /\ drawQueue = {}
  /\ painted = "idle"
  /\ rev = "mount"
  /\ drawn = [loud |-> FALSE, ext |-> FALSE]
  /\ renderSkipped = FALSE

Init == InitHook /\ InitCanvas /\ InitShell /\ InitRender(1)

\* ---- analyzeAudio (lines 471-526), past its guard ----
\* loop: the polling loop (one per successful startListening) that runs the
\* tick; cap: the isSpeaking its closure captured; q: the host's frame
\* queue without the request that is running.
AnalyzeBody(loop, cap, sample, q) ==
  LET hist == PushHistory(volumeHistoryRef, sample)
      above == AboveThreshold(hist)
  IN
  /\ audioLevel' = ExposedLevel(sample, hist)
  /\ volumeHistoryRef' = hist
  /\ pushed' = Append(pushed, sample)
  /\ IF above
       THEN /\ silenceTimeoutRef' = 0
            /\ timerQueue' = ClearSilenceTimeout(timerQueue, silenceTimeoutRef)
            /\ IF ~cap
                 THEN /\ lastSpeakingTimeRef' = now
                      /\ isSpeaking' = TRUE
                 ELSE UNCHANGED <<lastSpeakingTimeRef, isSpeaking>>
       ELSE /\ IF StartsSilenceTimer(cap, silenceTimeoutRef)
                 THEN /\ silenceTimeoutRef' = NewTimerId
                      /\ timerQueue' = timerQueue \cup
                           {[id |-> NewTimerId, startedAt |-> now,
                             fireAt |-> now + SILENCE_DELAY]}
                 ELSE UNCHANGED <<silenceTimeoutRef, timerQueue>>
            /\ UNCHANGED <<lastSpeakingTimeRef, isSpeaking>>
  /\ rafQueue' = q \cup {[loop |-> loop, cap |-> cap]}
  /\ animationFrameRef' = loop
  /\ lastAbove' = IF above THEN now ELSE lastAbove
  /\ episodeStart' = IF above /\ ~cap /\ ~isSpeaking THEN now ELSE episodeStart
  /\ quietSince' = IF above THEN NoTime
                   ELSE IF isSpeaking /\ quietSince = NoTime THEN now
                   ELSE quietSince

\* ---- startListening, up to the await (lines 552-561) ----
StartCall(limit) ==
  /\ mounted
  /\ nextCall <= limit
  /\ error' = "null"
  /\ pendingPermission' = pendingPermission \cup
        {[id |-> nextCall, cap |-> isSpeaking]}
  /\ nextCall' = nextCall + 1
  /\ ev' = "start"
  /\ stoppedSince' = FALSE
  /\ UNCHANGED <<isListening, isSpeaking, hasPermission, audioLevel, hookRefs,
                 liveStreams, openContexts, rafQueue, timerQueue, now, mounted,
                 pushed, episodeStart, quietSince, lastAbove>>

\* ---- startListening, permission granted (lines 563-581) ----
PermissionGranted(p, sample, limit) ==
  /\ p \in pendingPermission
  /\ Len(pushed) < limit
  /\ pendingPermission' = pendingPermission \ {p}
  /\ mediaStreamRef' = p.id
  /\ liveStreams' = liveStreams \cup {p.id}
  /\ hasPermission' = "true"
  /\ isListening' = TRUE
  /\ openContexts' = openContexts \cup {p.id}
  /\ audioContextRef' = p.id
  /\ analyserRef' = p.id
  /\ AnalyzeBody(p.id, p.cap, sample, rafQueue)
  /\ ev' = "grant"
  /\ UNCHANGED <<error, nextCall, now, mounted, stoppedSince>>

\* ---- startListening, stream granted but the AudioContext constructor
\*      throws (lines 563-567, then the catch at 582-588) ----
ContextFails(p) ==
  /\ p \in pendingPermission
  /\ pendingPermission' = pendingPermission \ {p}
  /\ mediaStreamRef' = p.id
  /\ liveStreams' = liveStreams \cup {p.id}
  /\ isListening' = TRUE
  /\ error' = DeniedMessage
  /\ hasPermission' = "false"
  /\ ev' = "ctxfail"
  /\ UNCHANGED <<isSpeaking, audioLevel, audioContextRef, analyserRef,
                 animationFrameRef, silenceTimeoutRef, volumeHistoryRef,
                 lastSpeakingTimeRef, nextCall, openContexts, rafQueue,
                 timerQueue, now, mounted, stoppedSince, pushed, episodeStart,
                 quietSince, lastAbove>>

\* PermissionDenied that reports listening although nothing was opened
PermissionDeniedMarksListening(p) ==
  /\ p \in pendingPermission
  /\ pendingPermission' = pendingPermission \ {p}
  /\ error' = DeniedMessage
  /\ hasPermission' = "false"
  /\ isListening' = TRUE
  /\ ev' = "deny"
  /\ UNCHANGED <<isSpeaking, audioLevel, hookRefs, nextCall,
                 liveStreams, openContexts, rafQueue, timerQueue, now, mounted,
                 stoppedSince, pushed, episodeStart, quietSince, lastAbove>>

\* ---- startListening, permission denied (lines 582-588) ----
PermissionDenied(p) ==
  /\ p \in pendingPermission
  /\ pendingPermission' = pendingPermission \ {p}
  /\ error' = DeniedMessage
  /\ hasPermission' = "false"
  /\ ev' = "deny"
  /\ UNCHANGED <<isListening, isSpeaking, audioLevel, hookRefs, nextCall,
                 liveStreams, openContexts, rafQueue, timerQueue, now, mounted,
                 stoppedSince, pushed, episodeStart, quietSince, lastAbove>>

\* SkippedFrame that asks for the next frame all the same
SkippedFrameReschedules(r) ==
  /\ rafQueue' = rafQueue
  /\ ev' = "skip"
  /\ UNCHANGED <<hookState, hookRefs, pendingPermission, nextCall, liveStreams,
                 openContexts, timerQueue, now, mounted, stoppedSince, pushed,
                 episodeStart, quietSince, lastAbove>>

\* ---- analyzeAudio returns at its guard: no analyser (line 472) ----
SkippedFrame(r) ==
  /\ rafQueue' = rafQueue \ {r}
  /\ ev' = "skip"
  /\ UNCHANGED <<hookState, hookRefs, pendingPermission, nextCall, liveStreams,
                 openContexts, timerQueue, now, mounted, stoppedSince, pushed,
                 episodeStart, quietSince, lastAbove>>

\* ---- a pending animation frame runs analyzeAudio (lines 471-526) ----
AnimationFrame(r, sample, limit) ==
  /\ r \in rafQueue
  /\ IF analyserRef = 0
       THEN SkippedFrame(r)
       ELSE /\ Len(pushed) < limit
            /\ AnalyzeBody(r.loop, r.cap, sample, rafQueue \ {r})
            /\ ev' = "frame"
            /\ UNCHANGED <<isListening, hasPermission, error, mediaStreamRef,
                           audioContextRef, analyserRef, pendingPermission,
                           nextCall, liveStreams, openContexts, now, mounted,
                           stoppedSince>>

\* ---- the silence-confirmation timer fires (lines 511-521) ----
SilenceTimeout(t) ==
  /\ t \in timerQueue
  /\ t.fireAt <= now
  /\ timerQueue' = timerQueue \ {t}
  /\ LET speakingDuration == now - lastSpeakingTimeRef
     IN IF speakingDuration >= MIN_SPEAKING_DURATION
          THEN /\ isSpeaking' = FALSE
               /\ episodeStart' = NoTime
               /\ quietSince' = NoTime
          ELSE UNCHANGED <<isSpeaking, episodeStart, quietSince>>
  /\ silenceTimeoutRef' = 0
  /\ ev' = IF isSpeaking /\ now - lastSpeakingTimeRef >= MIN_SPEAKING_DURATION
            THEN "silent" ELSE "timer"
  /\ UNCHANGED <<isListening, hasPermission, audioLevel, error, mediaStreamRef,
                 audioContextRef, analyserRef, animationFrameRef,
                 volumeHistoryRef, lastSpeakingTimeRef, pendingPermission,
                 nextCall, liveStreams, openContexts, rafQueue, now, mounted,
                 stoppedSince, pushed, lastAbove>>

\* ---- stopListening (lines 528-550) ----
StopBody ==
  /\ rafQueue' = IF animationFrameRef # 0
                   THEN {r \in rafQueue : r.loop # animationFrameRef}
                   ELSE rafQueue
  /\ timerQueue' = StopSilenceTimeout(timerQueue, silenceTimeoutRef)
  /\ silenceTimeoutRef' = 0
  /\ liveStreams' = IF mediaStreamRef # 0
                      THEN liveStreams \ {mediaStreamRef}
                      ELSE liveStreams
  /\ mediaStreamRef' = 0
  /\ openContexts' = IF audioContextRef # 0
                       THEN openContexts \ {audioContextRef}
                       ELSE openContexts
  /\ audioContextRef' = 0
  /\ analyserRef' = 0
  /\ volumeHistoryRef' = <<>>
  /\ isListening' = FALSE
  /\ isSpeaking' = FALSE
  /\ audioLevel' = 0
  /\ stoppedSince' = TRUE
  /\ pushed' = <<>>
  /\ episodeStart' = NoTime
  /\ quietSince' = NoTime
  /\ UNCHANGED <<hasPermission, error, animationFrameRef, lastSpeakingTimeRef,
                 pendingPermission, nextCall, now, lastAbove>>

StopListening ==
  /\ mounted
  /\ StopBody
  /\ ev' = IF ev \in {"stop", "stop2"} THEN "stop2" ELSE "stop"
  /\ UNCHANGED mounted

\* ---- the teardown effect (lines 591-595) ----
Teardown ==
  /\ mounted
  /\ StopBody
  /\ mounted' = FALSE
  /\ ev' = "teardown"

\* ---- the clock; a due timer fires before time moves on ----
Advance ==
  /\ now < MaxTime
  /\ \A t \in timerQueue : t.fireAt > now
  /\ now' = now + TimeStep
  /\ ev' = "advance"
  /\ UNCHANGED <<hookState, hookRefs, pendingPermission, nextCall, liveStreams,
                 openContexts, rafQueue, timerQueue, mounted, stoppedSince,
                 pushed, episodeStart, quietSince, lastAbove>>

\* a step of the hook alone
HookOnly == UNCHANGED <<canvasVars, shellVars, renderVars>>

StartListening == StartCall(MaxCalls)
Grant == \E p \in pendingPermission, s \in Samples : PermissionGranted(p, s, MaxTicks)
GrantFails == \E p \in pendingPermission : ContextFails(p)
Deny == \E p \in pendingPermission : PermissionDenied(p)
Frame == \E r \in rafQueue, s \in Samples : AnimationFrame(r, s, MaxTicks)
Timeout == \E t \in timerQueue : SilenceTimeout(t)

Next ==
  \/ StartListening /\ HookOnly
  \/ Grant /\ HookOnly
  \/ GrantFails /\ HookOnly
  \/ Deny /\ HookOnly
  \/ Frame /\ HookOnly
  \/ Timeout /\ HookOnly
  \/ StopListening /\ HookOnly
  \/ Teardown /\ HookOnly
  \/ Advance /\ HookOnly

Spec == Init /\ [][Next]_vars

\* ---- the same engine within one instant (no clock, so no timer fires),
\*      with enough polling ticks to fill and overflow the volume history ----
StartListeningHist == StartCall(MaxHistCalls)
GrantHist == \E p \in pendingPermission, s \in Samples : PermissionGranted(p, s, MaxHistTicks)
FrameHist == \E r \in rafQueue, s \in Samples : AnimationFrame(r, s, MaxHistTicks)

NextHist ==
  \/ StartListeningHist /\ HookOnly
  \/ GrantHist /\ HookOnly
  \/ GrantFails /\ HookOnly
  \/ Deny /\ HookOnly
  \/ FrameHist /\ HookOnly
  \/ StopListening /\ HookOnly
  \/ Teardown /\ HookOnly

SpecHist == Init /\ [][NextHist]_vars

(***************************************************************************)
(* The recorder shell (RecorderApp.tsx) driving the hook.  A press runs    *)
(* the handler of the latest render; the part of handleRecordingToggle     *)
(* after `await startListening()` runs when that call settles.  The        *)
(* polling ticks and the silence timer do not touch what the shell reads   *)
(* (isListening) and are left out of this specification.                   *)
(***************************************************************************)
\* TimerEffect that forgets isListening
TimerEffectIgnoresListening(rec, lis, pau) == rec /\ ~pau

\* RecorderApp.tsx line 30: the condition under which the effect installs
\* the interval
TimerEffect(rec, lis, pau) == rec /\ lis /\ ~pau

\* lines 27-41: after a render the interval exists exactly when the
\* effect's condition holds in the rendered state
ShellRender == interval' = TimerEffect(isRecording', isListening', isPaused')

\* lines 54-56: toggle pressed while idle, up to the await
ToggleStart ==
  /\ ~isRecording /\ ~isPaused
  /\ StartCall(MaxCalls)
  /\ awaiting' = awaiting \cup {[id |-> nextCall, branch |-> "start"]}
  /\ sev' = "toggleStart"
  /\ stopHeld' = FALSE
  /\ prevTime' = recordingTime
  /\ UNCHANGED <<isRecording, isPaused, recordingTime>>
  /\ ShellRender

\* lines 60-63: toggle pressed while recording
TogglePause ==
  /\ isRecording /\ ~isPaused
  /\ StopListening
  /\ isPaused' = TRUE
  /\ sev' = "togglePause"
  /\ stopHeld' = FALSE
  /\ prevTime' = recordingTime
  /\ UNCHANGED <<isRecording, recordingTime, awaiting>>
  /\ ShellRender

\* lines 64-66: toggle pressed while paused, up to the await
ToggleResume ==
  /\ isPaused
  /\ StartCall(MaxCalls)
  /\ awaiting' = awaiting \cup {[id |-> nextCall, branch |-> "resume"]}
  /\ sev' = "toggleResume"
  /\ stopHeld' = FALSE
  /\ prevTime' = recordingTime
  /\ UNCHANGED <<isRecording, isPaused, recordingTime>>
  /\ ShellRender

\* StopPress that leaves the seconds on the clock
StopPressKeepsTime ==
  /\ StopListening
  /\ isRecording' = FALSE
  /\ isPaused' = FALSE
  /\ recordingTime' = recordingTime
  /\ sev' = "stopPress"
  /\ stopHeld' = TRUE
  /\ prevTime' = recordingTime
  /\ UNCHANGED awaiting
  /\ ShellRender

\* lines 72-77: handleStopRecording
StopPress ==
  /\ StopListening
  /\ isRecording' = FALSE
  /\ isPaused' = FALSE
  /\ recordingTime' = 0
  /\ sev' = "stopPress"
  /\ stopHeld' = TRUE
  /\ prevTime' = recordingTime
  /\ UNCHANGED awaiting
  /\ ShellRender

\* lines 57-59 and 67: handleRecordingToggle resumes after its await
Continuation(p) ==
  \E a \in awaiting :
    /\ a.id = p.id
    /\ awaiting' = awaiting \ {a}
    /\ IF a.branch = "start"
         THEN /\ isRecording' = TRUE
              /\ isPaused' = FALSE
              /\ recordingTime' = 0
              /\ sev' = "startDone"
         ELSE /\ isPaused' = FALSE
              /\ sev' = "resumeDone"
              /\ UNCHANGED <<isRecording, recordingTime>>
    /\ prevTime' = recordingTime
    /\ UNCHANGED stopHeld

ShellGrant ==
  \E p \in pendingPermission, s \in Samples :
    PermissionGranted(p, s, MaxTicks) /\ Continuation(p) /\ ShellRender

ShellGrantFails ==
  \E p \in pendingPermission : ContextFails(p) /\ Continuation(p) /\ ShellRender

ShellDeny ==
  \E p \in pendingPermission :
    PermissionDenied(p) /\ Continuation(p) /\ ShellRender

\* lines 31-33: the interval callback, once a second while installed
SecondTick ==
  /\ interval
  /\ recordingTime < MaxSeconds
  /\ recordingTime' = recordingTime + 1
  /\ sev' = "second"
  /\ prevTime' = recordingTime
  /\ UNCHANGED <<isRecording, isPaused, interval, awaiting, stopHeld, hookVars>>

\* a step of the shell and the hook
ShellOnly == UNCHANGED <<canvasVars, renderVars>>

NextShell ==
  \/ ToggleStart /\ ShellOnly
  \/ TogglePause /\ ShellOnly
  \/ ToggleResume /\ ShellOnly
  \/ StopPress /\ ShellOnly
  \/ ShellGrant /\ ShellOnly
  \/ ShellGrantFails /\ ShellOnly
  \/ ShellDeny /\ ShellOnly
  \/ SecondTick /\ ShellOnly

SpecShell == Init /\ [][NextShell]_vars

(***************************************************************************)
(* The Waveform component drawing what the hook hands it.  A render and    *)
(* the effects it triggers are one step with the state change that caused  *)
(* it.  Each redraw request carries the closure of drawWaveform that asked *)
(* for it: the isListening, analyser and isSpeaking of the render in which *)
(* the effect last ran.  No clock: the silence timer never fires here.     *)
(***************************************************************************)
Variants == {1, 2}
ByteMid == 128
\* silenceThreshold = 0.01, squared: 1 / silenceThresholdSqDen
silenceThresholdSqDen == 10000
\* time-domain snapshots: silence, just below, just above and far above the
\* threshold
Data == {<<128, 128>>, <<129, 129>>, <<130, 130>>, <<0, 255>>}

RECURSIVE SumSq(_)
SumSq(d) ==
  IF d = <<>> THEN 0
  ELSE (Head(d) - ByteMid) * (Head(d) - ByteMid) + SumSq(Tail(d))

\* lines 81-91 / 300-309: rms > silenceThreshold, with
\* rms = sqrt(sum(((b - 128) / 128)^2) / bufferLength)
RmsAbove(d) == SumSq(d) * silenceThresholdSqDen > ByteMid * ByteMid * Len(d)

\* DrawsActive that follows the speaking decision in both versions
DrawsActiveOnDecision(v, loud, ext) == loud \/ ext

\* lines 91, 98 / 309, 316: whether drawWaveform takes the active branch
DrawsActive(v, loud, ext) ==
  LET speaking == loud \/ ext
  IN IF v = 1 THEN speaking ELSE speaking /\ loud

\* lines 98-148 / 316-362: what the branch taken leaves on the canvas
Paint(v, loud, ext) ==
  IF DrawsActive(v, loud, ext)
    THEN (IF v = 1 THEN "wave" ELSE "sine")
    ELSE (IF v = 1 THEN "pulse" ELSE "flat")

ActiveFrames == {"wave", "sine"}

\* CancelFrame that cancels nothing
CancelFrameForgotten(q, ref) == q

\* lines 160-162, 197-199 / 373-375, 396-398:
\* if (animationRef.current) cancelAnimationFrame(animationRef.current);
\* the ref holds the id of the latest request made
CancelFrame(q, ref) == IF ref THEN {r \in q : ~r.latest} ELSE q

\* lines 64-153 / 285-367: one run of drawWaveform with closure c, snapshot
\* d and pending requests q
DrawWaveform(c, d, q) ==
  IF ~canvas \/ c.an = 0
    THEN /\ drawQueue' = q
         /\ rev' = "skip"
         /\ renderSkipped' = TRUE
         /\ UNCHANGED <<painted, animationRef, drawn>>
    ELSE /\ painted' = Paint(variant, RmsAbove(d), c.spk)
         /\ drawn' = [loud |-> RmsAbove(d), ext |-> c.spk]
         /\ rev' = "draw"
         /\ IF c.lis
              THEN /\ drawQueue' = {[r EXCEPT !.latest = FALSE] : r \in q}
                                     \cup {[lis |-> c.lis, an |-> c.an,
                                            spk |-> c.spk, latest |-> TRUE]}
                   /\ animationRef' = TRUE
              ELSE /\ drawQueue' = q
                   /\ UNCHANGED animationRef
         /\ UNCHANGED renderSkipped

\* line 156 / 370: the condition under which the effect starts the loop
EffectStarts(v, lis, an) == IF v = 1 THEN lis /\ an # 0 ELSE lis

\* lines 193-202 / 400-408: the effect's dependencies that can change here
Deps(v, lis, an, spk) == IF v = 1 THEN <<lis, an, spk>> ELSE <<lis, spk>>

\* Effect whose previous run left no cleanup behind
EffectWithoutCleanup ==
  LET c == [lis |-> isListening', an |-> analyserProp', spk |-> isSpeaking']
  IN IF EffectStarts(variant, isListening', analyserProp')
       THEN \E d \in Data : DrawWaveform(c, d, drawQueue)
       ELSE /\ drawQueue' = CancelFrame(drawQueue, animationRef)
            /\ painted' = "idle"
            /\ rev' = "idle"
            /\ UNCHANGED <<animationRef, drawn, renderSkipped>>

\* lines 155-192 / 369-399: cleanup of the previous run, then the effect,
\* in the render that sees the primed hook state and analyser prop
Effect ==
  LET q1 == CancelFrame(drawQueue, animationRef)
      c == [lis |-> isListening', an |-> analyserProp', spk |-> isSpeaking']
  IN IF EffectStarts(variant, isListening', analyserProp')
       THEN \E d \in Data : DrawWaveform(c, d, q1)
       ELSE /\ drawQueue' = CancelFrame(q1, animationRef)
            /\ painted' = "idle"
            /\ rev' = "idle"
            /\ UNCHANGED <<animationRef, drawn, renderSkipped>>

RenderIdle ==
  /\ rev' = "none"
  /\ UNCHANGED <<animationRef, drawQueue, painted, drawn, renderSkipped>>

\* the component's reaction to a step of the hook: a state change renders
\* again (RecorderApp.tsx lines 149-159 pass analyserRef.current as read in
\* that render), and changed dependencies run the effect again
React ==
  /\ UNCHANGED <<variant, canvas>>
  /\ IF ~canvas \/ hookState' = hookState
       THEN /\ UNCHANGED analyserProp
            /\ RenderIdle
       ELSE /\ analyserProp' = analyserRef'
            /\ IF Deps(variant, isListening', analyserProp', isSpeaking')
                    # Deps(variant, isListening, analyserProp, isSpeaking)
                 THEN Effect
                 ELSE RenderIdle

\* a step of the hook and the component
RenderOnly == UNCHANGED <<canvasVars, shellVars>>

\* RecorderApp renders for a reason of its own (its state changed) and
\* reads analyserRef.current again
Rerender ==
  /\ mounted /\ canvas
  /\ analyserProp # analyserRef
  /\ ev' = "render"
  /\ UNCHANGED <<hookState, hookRefs, hostState, stoppedSince, pushed,
                 episodeStart, quietSince, lastAbove, variant, canvas>>
  /\ analyserProp' = analyserRef
  /\ IF variant = 1 THEN Effect ELSE RenderIdle

\* a colour, the line width or the canvas size changes (lines 193-201 /
\* 400-407): the component renders and the effect runs again
Restyle ==
  /\ mounted /\ canvas
  /\ ev' = "render"
  /\ UNCHANGED <<hookState, hookRefs, hostState, stoppedSince, pushed,
                 episodeStart, quietSince, lastAbove, variant, canvas>>
  /\ analyserProp' = analyserRef
  /\ Effect

\* a pending redraw request runs drawWaveform
DrawFrame ==
  /\ canvas
  /\ ev' = "render"
  /\ UNCHANGED <<hookState, hookRefs, hostState, stoppedSince, pushed,
                 episodeStart, quietSince, lastAbove, variant, canvas,
                 analyserProp>>
  /\ \E r \in drawQueue, d \in Data : DrawWaveform(r, d, drawQueue \ {r})

\* lines 196-200 / 395-399 with the hook's teardown: the tree unmounts
Unmount ==
  /\ Teardown
  /\ canvas' = FALSE
  /\ drawQueue' = CancelFrame(drawQueue, animationRef)
  /\ rev' = "unmount"
  /\ UNCHANGED <<variant, analyserProp, animationRef, painted, drawn,
                 renderSkipped>>

StartListeningRender == StartCall(MaxRenderCalls)
GrantRender ==
  \E p \in pendingPermission, s \in Samples :
    PermissionGranted(p, s, MaxRenderTicks)
FrameRender ==
  \E r \in rafQueue, s \in Samples : AnimationFrame(r, s, MaxRenderTicks)

NextRender ==
  \/ StartListeningRender /\ React /\ RenderOnly
  \/ GrantRender /\ React /\ RenderOnly
  \/ GrantFails /\ React /\ RenderOnly
  \/ Deny /\ React /\ RenderOnly
  \/ FrameRender /\ React /\ RenderOnly
  \/ StopListening /\ React /\ RenderOnly
  \/ Unmount /\ RenderOnly
  \/ Rerender /\ RenderOnly
  \/ Restyle /\ RenderOnly
  \/ DrawFrame /\ RenderOnly

InitBoth ==
  /\ InitHook /\ InitCanvas /\ InitShell
  /\ \E v \in Variants : InitRender(v)

SpecRender == InitBoth /\ [][NextRender]_vars

\* ---- the Waveform component's sizing effect alone ----
InitSizes ==
  /\ InitHook
  /\ containerWidth \in ContainerWidths
  /\ \E cfg \in Configs : propWidth = cfg[1] /\ propHeight = cfg[2]
  /\ canvasSize = UpdateCanvasSize(containerWidth, propWidth, propHeight)
  /\ cev = "mount"
  /\ InitShell
  /\ InitRender(1)

\* a window resize event runs updateCanvasSize (line 59 / 281)
Resize ==
  /\ \E c \in ContainerWidths :
        /\ containerWidth' = c
        /\ canvasSize' = UpdateCanvasSize(c, propWidth, propHeight)
  /\ cev' = "resize"
  /\ UNCHANGED <<propWidth, propHeight, hookVars, shellVars, renderVars>>

NextCanvas == Resize

SpecCanvas == InitSizes /\ [][NextCanvas]_vars

(***************************************************************************)
(* Properties of the engine                                                *)
(***************************************************************************)
StopEvents == {"stop", "stop2"}
TimerEvents == {"timer", "silent"}

\* the last n elements of a sequence
LastN(s, n) == IF Len(s) <= n THEN s ELSE SubSeq(s, Len(s) - n + 1, Len(s))

\* C1: after stopListening and until the next startListening call, no polling
\* tick and no silence-timer callback changes isSpeaking, audioLevel, the
\* volume history or the last-speaking timestamp.
C1_NoCallbackAfterStop ==
  [][(stoppedSince /\ ev' \in ({"frame"} \cup TimerEvents))
       => UNCHANGED <<isSpeaking, audioLevel, volumeHistoryRef,
                      lastSpeakingTimeRef>>]_vars

\* C2: whenever stopListening has run and startListening has not been called
\* since, every acquired stream is stopped and every created context closed.
C2_ReleasedAfterStop ==
  stoppedSince => (liveStreams = {} /\ openContexts = {})

\* the state stopListening is said to leave
StoppedState ==
  /\ audioLevel = 0
  /\ ~isSpeaking
  /\ ~isListening
  /\ analyserRef = 0
  /\ volumeHistoryRef = <<>>
  /\ silenceTimeoutRef = 0
  /\ timerQueue = {}

\* C3: stopListening leaves level 0, not speaking, not listening, no
\* analyser, an empty history and no pending timer; a second stopListening
\* right after the first, or one in an already stopped engine, changes
\* nothing of the engine or of what the host has scheduled for it.
C3_StopIdempotent ==
  [][ev' \in StopEvents =>
       /\ StoppedState'
       /\ (ev \in StopEvents \/ (StoppedState /\ mediaStreamRef = 0
                                  /\ audioContextRef = 0))
            => UNCHANGED <<hookState, hookRefs, hostState>>]_vars

\* stopListening ran twice in a row after a session had been opened
C3_Witness == ev = "stop2" /\ hasPermission = "true" /\ lastAbove # NoTime

\* C4: at most one live stream, one open audio context and one polling loop.
C4_AtMostOneSession ==
  /\ Cardinality(liveStreams) <= 1
  /\ Cardinality(openContexts) <= 1
  /\ Cardinality(rafQueue) <= 1

\* C5: while listening, isSpeaking goes from true to false only when a
\* silence timer fires at least SILENCE_DELAY after it was started, no loud
\* tick has happened since it was started, and so at least SILENCE_DELAY
\* after the last loud tick.
C5_SilenceOnlyAfterDelay ==
  [][(isListening /\ isListening' /\ isSpeaking /\ ~isSpeaking') =>
       /\ ev' = "silent"
       /\ \E t \in timerQueue \ timerQueue' :
             /\ now >= t.startedAt + SILENCE_DELAY
             /\ lastAbove <= t.startedAt
       /\ lastAbove # NoTime
       /\ now - lastAbove >= SILENCE_DELAY]_vars

\* a silence timer has fired and turned isSpeaking off while listening
C5_Witness == ev = "silent" /\ isListening /\ ~isSpeaking

\* C6: while listening and speaking, once the level has stayed at or below
\* the threshold for the whole SILENCE_DELAY after an episode of at least
\* MIN_SPEAKING_DURATION, isSpeaking is false: time does not pass the end of
\* the delay with isSpeaking still true.
C6_SilenceConfirmed ==
  (/\ isListening
   /\ isSpeaking
   /\ quietSince # NoTime
   /\ episodeStart # NoTime
   /\ quietSince - episodeStart >= MIN_SPEAKING_DURATION)
    => now <= quietSince + SILENCE_DELAY

\* C7: a polling tick while listening that finds isSpeaking false and the
\* smoothed level above the threshold sets isSpeaking in that tick.
C7_SpeakingImmediate ==
  [][(ev' = "frame" /\ isListening /\ ~isSpeaking
        /\ AboveThreshold(volumeHistoryRef'))
       => isSpeaking']_vars

\* C8: a silence timer that fires for an episode in which the level was above
\* the threshold for less than MIN_SPEAKING_DURATION does not commit
\* isSpeaking = false.
C8_ShortBurstRejected ==
  [][(/\ ev' \in TimerEvents
      /\ isSpeaking
      /\ quietSince # NoTime
      /\ episodeStart # NoTime
      /\ quietSince - episodeStart < MIN_SPEAKING_DURATION)
       => isSpeaking']_vars

\* C9: the volume history never holds more than VOLUME_HISTORY_SIZE samples,
\* equals the most recent min(n, VOLUME_HISTORY_SIZE) samples pushed since
\* the last stopListening in push order, and is empty after stopListening.
C9_HistoryIsRecentSamples ==
  /\ Len(volumeHistoryRef) <= VOLUME_HISTORY_SIZE
  /\ volumeHistoryRef = LastN(pushed, VOLUME_HISTORY_SIZE)
  /\ (ev \in (StopEvents \cup {"teardown"}) => volumeHistoryRef = <<>>)

\* more samples than the capacity were pushed and the oldest one, which
\* differs from the oldest kept, was evicted
C9_Witness ==
  /\ Len(pushed) > VOLUME_HISTORY_SIZE
  /\ Len(volumeHistoryRef) = VOLUME_HISTORY_SIZE
  /\ Head(pushed) # Head(volumeHistoryRef)

\* C10: a denied permission request leaves hasPermission = denied and a
\* non-null error, and opens nothing: no stream, context, analyser or
\* polling loop, isListening unchanged.
C10_DenialCreatesNoSession ==
  [][ev' = "deny" =>
       /\ hasPermission' = "false"
       /\ error' # "null"
       /\ UNCHANGED <<isListening, mediaStreamRef, audioContextRef,
                      analyserRef, animationFrameRef, liveStreams,
                      openContexts, rafQueue, timerQueue>>]_vars

\* a request was denied while an earlier one had opened a session
C10_Witness ==
  ev = "deny" /\ isListening /\ analyserRef # 0 /\ hasPermission = "false"

\* C18 as stated: after every polling tick while listening the exposed
\* audioLevel is the smoothed level, the arithmetic mean of the volume
\* history, and lies in [0,1]; it is 0 after stopListening.
C18_LevelIsSmoothedMean ==
  /\ (ev \in {"grant", "frame"} /\ isListening) =>
        /\ audioLevel * Len(volumeHistoryRef) = SumSeq(volumeHistoryRef)
        /\ audioLevel >= 0
        /\ audioLevel <= FrequencyBinCount * ByteMax
  /\ (ev \in StopEvents => audioLevel = 0)

\* C18 amended: after every polling tick the exposed audioLevel is the raw
\* normalised level of that tick's snapshot (the sample pushed last), not the
\* mean of the history; it lies in [0,1] and is 0 after stopListening.
C18_LevelIsLatestSample ==
  /\ pushed # <<>> => audioLevel = pushed[Len(pushed)]
  /\ audioLevel >= 0
  /\ audioLevel <= FrequencyBinCount * ByteMax
  /\ (ev \in (StopEvents \cup {"teardown"}) => audioLevel = 0)

\* a tick has just run whose sample differs from the mean of the history
C18_Witness ==
  /\ ev = "frame"
  /\ isListening
  /\ Len(volumeHistoryRef) >= 2
  /\ audioLevel * Len(volumeHistoryRef) # SumSeq(volumeHistoryRef)

\* C19: the last-speaking timestamp is written only by a polling tick that
\* moves isSpeaking from false to true; a loud tick with isSpeaking already
\* true leaves the timestamp and isSpeaking unchanged.
C19_TimestampOnlyOnTransition ==
  [][(lastSpeakingTimeRef' # lastSpeakingTimeRef)
       => (ev' \in {"grant", "frame"} /\ ~isSpeaking /\ isSpeaking')]_vars

\* C15: for every container width c >= 0 the canvas width computed on mount
\* and on each resize is min(max(0.95 c, 320), 800), so within [320, 800],
\* and the height is min(width * configured height / configured width, 200),
\* so at most 200; 800x160 in a 1000 px container gives 800 x 160.
C15_CanvasSizeClamped ==
  LET w95 == WidthPercent * containerWidth
      expected == IF w95 <= 32000 THEN 32000
                  ELSE IF w95 >= 80000 THEN 80000 ELSE w95
      \* expected height, as a fraction of 100 * propWidth
      scaled == expected * propHeight
      cap == 200 * 100 * propWidth
  IN /\ canvasSize.width = expected
     /\ canvasSize.width >= 32000
     /\ canvasSize.width <= 80000
     /\ IF scaled <= cap
          THEN \/ canvasSize.den = 100 * propWidth /\ canvasSize.num = scaled
               \/ canvasSize.den = 1
                    /\ canvasSize.num * 100 * propWidth = scaled
          ELSE canvasSize.num = 200 * canvasSize.den
     /\ canvasSize.num <= 200 * canvasSize.den
     /\ (containerWidth = 1000 /\ propWidth = 800 /\ propHeight = 160)
          => (canvasSize.width = 80000
              /\ canvasSize.num = 160 * canvasSize.den)

\* a resize to 1000 px with the 800x160 configuration has been handled
C15_Witness ==
  /\ cev = "resize"
  /\ containerWidth = 1000
  /\ propWidth = 800
  /\ propHeight = 160
  /\ canvasSize.width = 80000

(***************************************************************************)
(* Properties of the recorder shell                                        *)
(***************************************************************************)
ShellState ==
  IF isPaused THEN "paused" ELSE IF isRecording THEN "recording" ELSE "idle"

ToggleEvents ==
  {"toggleStart", "togglePause", "toggleResume", "startDone", "resumeDone"}

\* C11: when the toggle is pressed while idle and microphone access is
\* refused, the recorder stays idle and no further permission request is
\* issued.
C11_DenialKeepsIdle ==
  [][(sev' = "startDone" /\ ev' = "deny" /\ ShellState = "idle")
       => (/\ ~isRecording'
           /\ ~isPaused'
           /\ pendingPermission' \subseteq pendingPermission)]_vars

C13_StopHolds ==
  stopHeld => (/\ ~isRecording
               /\ ~isPaused
               /\ ~isListening
               /\ recordingTime = 0)

\* C14: the toggle moves the shell only idle -> recording (capture started,
\* recordingTime 0), recording -> paused (capture stopped, recordingTime
\* kept) and paused -> recording (capture started, recordingTime kept).
C14_ToggleTransitions ==
  [][(sev' \in ToggleEvents /\ ShellState' # ShellState) =>
       \/ /\ ShellState = "idle" /\ ShellState' = "recording"
          /\ isListening'
          /\ recordingTime' = 0
       \/ /\ ShellState = "recording" /\ ShellState' = "paused"
          /\ ~isListening'
          /\ recordingTime' = recordingTime
       \/ /\ ShellState = "paused" /\ ShellState' = "recording"
          /\ isListening'
          /\ recordingTime' = recordingTime]_vars

(***************************************************************************)
(* Properties of the waveform renderer                                     *)
(***************************************************************************)
\* C16: while the component is mounted and isListening is false, no redraw
\* request is pending and the canvas shows the idle frame (flat centre line
\* at fixed opacity 0.3), so no waveform frame is drawn after isListening
\* became false.
C16_IdleWhenNotListening ==
  (canvas /\ ~isListening) => (drawQueue = {} /\ painted = "idle")

\* listening has just ended while a redraw request was pending
C16_Witness ==
  /\ canvas /\ ~isListening
  /\ ev = "stop" /\ rev = "idle"
  /\ animationRef
  /\ drawn.loud

\* C17: a render tick draws the active waveform exactly when the external
\* isSpeaking is true or the local RMS exceeds 0.01, and the flat line
\* exactly when both are false.
C17_ActiveIffDecision ==
  [][(rev' = "draw") =>
       ((painted' \in ActiveFrames) <=> (isSpeaking' \/ drawn'.loud))]_vars

\* C17 amended: the first version draws the active waveform exactly when
\* isSpeaking is true or the local RMS exceeds 0.01; the second version
\* exactly when the local RMS exceeds 0.01, whatever isSpeaking is.
C17_ActiveByVersion ==
  [][(rev' = "draw") =>
       ((painted' \in ActiveFrames) <=>
          IF variant = 1 THEN isSpeaking' \/ drawn'.loud ELSE drawn'.loud)]_vars

\* the second version has just drawn the flat line while isSpeaking is true
C17_Witness ==
  /\ variant = 2 /\ rev = "draw"
  /\ isSpeaking /\ ~drawn.loud
  /\ painted = "flat"

\* C20: a polling tick without an analyser changes nothing of the engine
\* and schedules no tick; a render tick without an analyser or a canvas
\* paints nothing and schedules no tick.
C20_SkipChangesNothing ==
  [][/\ (ev' = "skip") =>
          (/\ UNCHANGED <<hookState, hookRefs, timerQueue, pendingPermission,
                          liveStreams, openContexts>>
           /\ rafQueue' \subseteq rafQueue /\ rafQueue' # rafQueue
           /\ UNCHANGED <<painted, drawQueue>>)
     /\ (rev' = "skip") =>
          (/\ UNCHANGED <<painted, animationRef>>
           /\ drawQueue' \subseteq drawQueue)]_vars

\* both kinds of tick have been skipped
C20_Witness ==
  /\ ev = "skip" /\ analyserRef = 0
  /\ renderSkipped

(***************************************************************************)
(* Invariants of the engine, the shell and the renderer                    *)
(***************************************************************************)
TickScheduled == \E r \in rafQueue : r.loop = animationFrameRef

\* C21: isListening is true exactly when the engine holds a stream, an open
\* audio context and an analyser and has a polling tick scheduled; and
\* hasPermission = false never goes with isListening or a held stream.
C21_ListeningIffResources ==
  /\ isListening <=> (/\ mediaStreamRef # 0
                      /\ audioContextRef # 0
                      /\ analyserRef # 0
                      /\ TickScheduled)
  /\ (hasPermission = "false") => (~isListening /\ mediaStreamRef = 0)

\* C22: recordingTime is 0 whenever the shell is idle.
C22_IdleTimeZero ==
  (~isRecording /\ ~isPaused) => (recordingTime = 0)

\* the stop control has just brought a shell with seconds on the clock to
\* idle
C22_Witness ==
  /\ sev = "stopPress"
  /\ ~isRecording /\ ~isPaused
  /\ prevTime = MaxSeconds
  /\ recordingTime = 0

\* C23: at most one silence-confirmation timer is pending, and only while
\* the engine is listening; no timer is started while one is pending, and
\* none is pending after stopListening, after teardown or after the timer
\* has fired.
C23_OneSilenceTimer ==
  [][/\ Cardinality(timerQueue') <= 1
     /\ (timerQueue' # {}) => isListening'
     /\ (timerQueue' \ timerQueue # {}) => (timerQueue = {})
     /\ (ev' \in StopEvents \cup TimerEvents \cup {"teardown"})
          => (timerQueue' = {})]_vars

\* one timer is pending while two polling loops are running
C23_Witness ==
  /\ isListening
  /\ Cardinality(timerQueue) = 1
  /\ \E t \in timerQueue : t.id = silenceTimeoutRef /\ t.startedAt < now
  /\ Cardinality(rafQueue) = 2
  /\ ev = "frame"

\* C24: the renderer has at most one redraw request outstanding; a run of
\* the effect leaves at most the request of the loop it started, so two
\* render loops never run side by side.
C24_OneRedrawRequest ==
  /\ Cardinality(drawQueue) <= 1
  /\ \A r \in drawQueue : r.latest /\ animationRef

\* a polling tick has just turned isSpeaking on while a render loop was
\* running: the effect ran again, drew, and one request is pending
C24_Witness ==
  /\ canvas /\ isListening /\ isSpeaking
  /\ ev = "frame" /\ rev = "draw"
  /\ Cardinality(drawQueue) = 1
  /\ \E r \in drawQueue : r.spk

====
